---- MODULE Spec2Model ----
(***************************************************************************)
(* A model of export.py: fetch_all_documents (the paginated fetch with a   *)
(* persistent response cache and throttle retry) and append_to_file (the   *)
(* jsonl / csv export with overwrite and duplicate control).               *)
(***************************************************************************)
EXTENDS Naturals, Sequences, FiniteSets, TLC

VARIABLES
    \* ---- the remote service and the persistent cache store
    remote,            \* the server's pages, in chain order
    cache,             \* shelve store: cache key -> cached response body
    \* ---- one run of fetch_all_documents (a generator)
    pc,                \* idle | loop | sleep | yield | done | error | stopped
    next_page_cursor,  \* None (<<>>) or <<string>>
    response_json,     \* the page being iterated
    idx,               \* position of the for loop in response_json["results"]
    error,             \* the exception raised by the run, <<>> when none
    \* ---- what a run did (observations)
    emitted,           \* records yielded by this run, in order
    requests,          \* params of the HTTP GETs issued by this run, in order
    sleeping,          \* <<wait_time>> while in time.sleep, <<>> otherwise
    throttles,         \* times the server throttled this run
    lastResponse,      \* body of the latest HTTP response, <<>> when none
    runNo,             \* number of runs started
    fetchedNow,        \* keys of pages this run fetched successfully
    fetchedBefore,     \* keys of pages earlier runs fetched successfully
    prior,             \* [done, emitted] of the latest completed run
    \* ---- the destination file and one call of append_to_file
    tqdm_installed,    \* whether "from tqdm.auto import tqdm" succeeded
    file,              \* [exists, lines, open_end]: the file's text
    data,              \* the records handed to append_to_file
    file_path,         \* the destination path's suffix, as its pieces
    file_format,       \* None or <<format>>
    overwrite,
    allow_duplicates,
    xpc,               \* idle | read | open | peek | enter | loop | done | error
    existing_data,     \* jsonl: set of stripped lines; csv: list of rows
    fieldnames,        \* csv: the writer's field names
    xidx,              \* position of the write loop in data
    xerror,            \* the exception raised by the call, <<>> when none
    \* ---- what the calls did (observations)
    callNo,            \* number of calls started
    fileBefore,        \* the file when the current call started
    hist,              \* per finished call: [before, after, outcome]
    \* ---- the process environment
    token              \* READWISE_ACCESS_TOKEN, "" when not set

fetchVars == <<remote, cache, pc, next_page_cursor, response_json, idx, error,
               emitted, requests, sleeping, throttles, lastResponse, runNo,
               fetchedNow, fetchedBefore, prior>>

exportVars == <<tqdm_installed, file, data, file_path, file_format, overwrite,
                allow_duplicates, xpc, existing_data, fieldnames, xidx, xerror,
                callNo, fileBefore, hist>>

envVars == <<token>>

vars == <<fetchVars, exportVars, envVars>>

----------------------------------------------------------------------------
(* Bounds of the model *)

MaxPages == 3
MaxThrottles == 2
MaxRuns == 2
MaxData == 2
MaxFileLines == 2
MaxCalls == 2

----------------------------------------------------------------------------
(* Document records: ordered field -> value mappings; a value carries its   *)
(* JSON type and its text.                                                  *)

StrV(s) == <<"str", s>>
IntV(s) == <<"int", s>>
NoneV == <<"none", "">>

DocX == << <<"a", StrV("x")>> >>
DocY == << <<"a", StrV("y")>> >>
DocN == << <<"a", IntV("1")>> >>
DocXY == << <<"a", StrV("x")>>, <<"b", StrV("y")>> >>

\* the results a page of the remote collection may hold
PageContents == {<<>>, <<DocX>>, <<DocY, DocX>>}

RECURSIVE SeqsOfLen(_, _)
SeqsOfLen(S, n) ==
    IF n = 0 THEN {<<>>}
    ELSE {Append(s, e) : s \in SeqsOfLen(S, n - 1), e \in S}

SeqsUpTo(S, n) == UNION {SeqsOfLen(S, k) : k \in 0..n}

RECURSIVE Concat(_)
Concat(ss) == IF ss = <<>> THEN <<>> ELSE Head(ss) \o Concat(Tail(ss))

IsPrefix(s, t) == Len(s) <= Len(t) /\ SubSeq(t, 1, Len(s)) = s

----------------------------------------------------------------------------
(* Python values used by fetch_all_documents *)

None == <<>>

\* truthiness of next_page_cursor: None and "" are falsy
Truthy(c) == c # None /\ c[1] # ""

\* params = {} ; if next_page_cursor: params["pageCursor"] = next_page_cursor
Params(c) == IF Truthy(c) THEN {<<"pageCursor", c[1]>>} ELSE {}

\* variant: the key also names the credential of the run
CacheKeyWithToken(params) ==
    IF params = {} THEN "{}" \o token
    ELSE LET p == CHOOSE q \in params : TRUE
         IN  "{'" \o p[1] \o "': '" \o p[2] \o "'}" \o token

\* cache_key = f"{params}"
CacheKey(params) ==
    IF params = {} THEN "{}"
    ELSE LET p == CHOOSE q \in params : TRUE
         IN  "{'" \o p[1] \o "': '" \o p[2] \o "'}"

\* response_json.get(name)
Get(body, name) == IF name \in DOMAIN body THEN body[name] ELSE None

----------------------------------------------------------------------------
(* The remote service *)

\* the credentials a process may run with; the service knows the first two
Tokens == {"t1", "t2", "bad"}

\* headers={"Authorization": f"Token {token}"}: the service serves pages to
\* the credentials it knows
Authorized(t) == t \in {"t1", "t2"}

CursorNames == <<"c2", "c3", "c4", "c5", "c6">>

\* the ways a last page says "no continuation": key absent, null, ""
LastPageKinds == {"absent", "null", "empty"}

LastPage(rs, kind) ==
    CASE kind = "absent" -> [results |-> rs]
      [] kind = "null"   -> [results |-> rs, nextPageCursor |-> None]
      [] kind = "empty"  -> [results |-> rs, nextPageCursor |-> <<"">>]

Chains ==
    UNION {
      { [i \in 1..n |->
            IF i < n
            THEN [results |-> rs[i], nextPageCursor |-> <<CursorNames[i]>>]
            ELSE LastPage(rs[i], kind)] :
        rs \in [1..n -> PageContents],
        kind \in LastPageKinds } :
      n \in 1..MaxPages }

\* the page the server holds for a request's params
ServerPage(params) ==
    IF params = {} THEN remote[1]
    ELSE LET c == (CHOOSE q \in params : TRUE)[2]
             i == CHOOSE j \in 2..Len(remote) :
                      Get(remote[j - 1], "nextPageCursor") = <<c>>
         IN  remote[i]

Quote == "'"
ThrottleHead == "Request was throttled. Expected available in "
ThrottleTail == " seconds."
DigitChars == <<"0", "1", "2", "3", "4", "5", "6", "7", "8", "9">>

\* str(n) for n < 100, as digit characters
DecimalDigits(n) ==
    IF n < 10 THEN <<DigitChars[n + 1]>>
    ELSE <<DigitChars[(n \div 10) + 1], DigitChars[(n % 10) + 1]>>

\* a detail string, as the sequence of its pieces
ThrottleDetail(ds) == <<Quote, ThrottleHead>> \o ds \o <<ThrottleTail, Quote>>

WaitSeconds == {5, 10}

ThrottleBody(n) == [detail |-> ThrottleDetail(DecimalDigits(n))]

\* bodies without results that name no number of seconds in the quoted form
ErrorBodies ==
    { [detail |-> <<"Invalid token.">>],
      [detail |-> <<ThrottleHead, "5", ThrottleTail>>],
      [detail |-> ThrottleDetail(<<>>)],
      [error |-> "server error"] }

----------------------------------------------------------------------------
(* Lines 49-57: classifying a response body *)

HasResults(body) == "results" \in DOMAIN body

IsDigit(t) == \E i \in 1..Len(DigitChars) : DigitChars[i] = t

RECURSIVE DigitRun(_, _)
DigitRun(d, i) ==
    IF i <= Len(d) /\ IsDigit(d[i]) THEN 1 + DigitRun(d, i + 1) ELSE 0

\* re.match("'Request was throttled. Expected available in ([0-9]*) seconds.'", detail)
\* None, or <<group 1>>
ReMatch(d) ==
    IF Len(d) >= 2 /\ d[1] = Quote /\ d[2] = ThrottleHead
    THEN LET k == DigitRun(d, 3)
         IN  IF Len(d) >= 4 + k /\ d[3 + k] = ThrottleTail /\ d[4 + k] = Quote
             THEN <<SubSeq(d, 3, 2 + k)>>
             ELSE None
    ELSE None

DigitVal(t) == (CHOOSE i \in 1..Len(DigitChars) : DigitChars[i] = t) - 1

\* variant: only the first digit of the number is read
IntOfFirstDigit(ds) == DigitVal(ds[1])

RECURSIVE IntOf(_)
\* int(text) of a non-empty digit string
IntOf(ds) ==
    IF Len(ds) = 1 THEN DigitVal(ds[1])
    ELSE 10 * IntOf(SubSeq(ds, 1, Len(ds) - 1)) + DigitVal(ds[Len(ds)])

Waiting(body) ==
    IF "detail" \in DOMAIN body THEN ReMatch(body.detail) ELSE None

\* variant: the error does not carry the response body
ApiErrorNoBody(body) == <<"ValueError", "Error fetching data">>

\* raise ValueError(f"Error fetching data: {response_json}")
ApiError(body) == <<"ValueError", "Error fetching data: ", body>>

\* int("") raises ValueError: invalid literal for int()
IntError == <<"ValueError", "invalid literal for int() with base 10: ''">>

----------------------------------------------------------------------------
(* Lines 34, 40, 58, 62: the cache store and the cursor *)

\* variant: the store is created afresh by every run
OpenCacheFresh(store) == <<>>

\* shelve.open(cache_file): the store as the previous runs left it
OpenCache(store) == store

\* variant: the membership test always fails
NeverInCache(store, key) == FALSE

\* cache_key in cache
InCache(store, key) == key \in DOMAIN store

\* variant: writing an entry drops the others
StoreAlone(store, key, body) == (key :> body)

\* cache[cache_key] = response_json
Store(store, key, body) == (key :> body) @@ store

\* variant: the response is stored before it is examined
CacheAlways(store, key, body) == (key :> body) @@ store

\* the store after lines 49-58 handled a response
CacheAfter(store, key, body) ==
    IF HasResults(body) THEN Store(store, key, body) ELSE store

\* variant: the continuation token is not read
NextCursorDropped(body) == None

\* next_page_cursor = response_json.get("nextPageCursor")
NextCursor(body) == Get(body, "nextPageCursor")

----------------------------------------------------------------------------
(* fetch_all_documents *)

\* the state before the first run: any chain, an empty store
FetchStart ==
    /\ remote \in Chains
    /\ cache = <<>>
    /\ pc = "idle"
    /\ next_page_cursor = None
    /\ response_json = <<>>
    /\ idx = 0
    /\ error = <<>>
    /\ emitted = <<>>
    /\ requests = <<>>
    /\ sleeping = <<>>
    /\ throttles = 0
    /\ lastResponse = <<>>
    /\ runNo = 0
    /\ fetchedNow = {}
    /\ fetchedBefore = {}
    /\ prior = [done |-> FALSE, emitted |-> <<>>]

\* lines 28-34: a new process calls fetch_all_documents and starts pulling
StartRun ==
    /\ pc \in {"idle", "done", "error", "stopped"}
    /\ runNo < MaxRuns
    /\ runNo' = runNo + 1
    /\ prior' = IF pc = "done" THEN [done |-> TRUE, emitted |-> emitted]
                ELSE prior
    /\ fetchedBefore' = fetchedBefore \cup fetchedNow
    /\ fetchedNow' = {}
    /\ cache' = OpenCache(cache)
    /\ next_page_cursor' = None
    /\ pc' = "loop"
    /\ response_json' = <<>>
    /\ idx' = 0
    /\ error' = <<>>
    /\ emitted' = <<>>
    /\ requests' = <<>>
    /\ sleeping' = <<>>
    /\ throttles' = 0
    /\ lastResponse' = <<>>
    /\ UNCHANGED remote

\* lines 36-41: the page is in the cache
CacheHit ==
    /\ pc = "loop"
    /\ InCache(cache, CacheKey(Params(next_page_cursor)))
    /\ response_json' = cache[CacheKey(Params(next_page_cursor))]
    /\ idx' = 1
    /\ pc' = "yield"
    /\ UNCHANGED <<remote, cache, next_page_cursor, error, emitted, requests,
                   sleeping, throttles, lastResponse, runNo, fetchedNow,
                   fetchedBefore, prior>>

\* lines 48-58 on a response body
HandleResponse(key, body) ==
    /\ cache' = CacheAfter(cache, key, body)
    /\ IF HasResults(body)
       THEN /\ response_json' = body
            /\ idx' = 1
            /\ pc' = "yield"
            /\ fetchedNow' = fetchedNow \cup {key}
            /\ UNCHANGED <<sleeping, error>>
       ELSE IF Waiting(body) # None
       THEN IF Waiting(body)[1] = <<>>
            THEN /\ pc' = "error"
                 /\ error' = IntError
                 /\ UNCHANGED <<response_json, idx, sleeping, fetchedNow>>
            ELSE /\ sleeping' = <<IntOf(Waiting(body)[1])>>
                 /\ pc' = "sleep"
                 /\ UNCHANGED <<response_json, idx, error, fetchedNow>>
       ELSE /\ pc' = "error"
            /\ error' = ApiError(body)
            /\ UNCHANGED <<response_json, idx, sleeping, fetchedNow>>

\* lines 36-58: the page is not in the cache; one HTTP GET and its handling.
\* The server answers with the page, a throttle or an error body.
Fetch ==
    /\ pc = "loop"
    /\ ~InCache(cache, CacheKey(Params(next_page_cursor)))
    /\ \E kind \in {"page", "throttle", "error"} :
         \E n \in WaitSeconds, e \in ErrorBodies :
           LET body == CASE kind = "page" -> ServerPage(Params(next_page_cursor))
                         [] kind = "throttle" -> ThrottleBody(n)
                         [] kind = "error" -> e
           IN  /\ kind = "page" => Authorized(token)
               /\ kind = "throttle" => throttles < MaxThrottles
               /\ kind # "throttle" => n = 5
               /\ kind # "error" => e = [error |-> "server error"]
               /\ requests' = Append(requests, Params(next_page_cursor))
               /\ lastResponse' = body
               /\ throttles' = IF kind = "throttle" THEN throttles + 1
                                ELSE throttles
               /\ HandleResponse(CacheKey(Params(next_page_cursor)), body)
    /\ UNCHANGED <<remote, next_page_cursor, emitted, runNo, fetchedBefore,
                   prior>>

\* variant: the sleep never gives the loop back its turn
WakeNever ==
    /\ pc = "sleep"
    /\ UNCHANGED <<remote, cache, pc, next_page_cursor, response_json, idx,
                   error, emitted, requests, sleeping, throttles,
                   lastResponse, runNo, fetchedNow, fetchedBefore, prior>>

\* lines 55-56: time.sleep(wait_time) returns; continue with the same cursor
Wake ==
    /\ pc = "sleep"
    /\ sleeping' = <<>>
    /\ pc' = "loop"
    /\ UNCHANGED <<remote, cache, next_page_cursor, response_json, idx, error,
                   emitted, requests, throttles, lastResponse, runNo,
                   fetchedNow, fetchedBefore, prior>>

\* lines 60-61: yield the next record of the page
Yield ==
    /\ pc = "yield"
    /\ idx <= Len(response_json.results)
    /\ emitted' = Append(emitted, response_json.results[idx])
    /\ idx' = idx + 1
    /\ UNCHANGED <<remote, cache, pc, next_page_cursor, response_json, error,
                   requests, sleeping, throttles, lastResponse, runNo,
                   fetchedNow, fetchedBefore, prior>>

\* lines 62-64: the page is exhausted; advance the cursor or stop
Advance ==
    /\ pc = "yield"
    /\ idx > Len(response_json.results)
    /\ next_page_cursor' = NextCursor(response_json)
    /\ pc' = IF Truthy(NextCursor(response_json)) THEN "loop" ELSE "done"
    /\ UNCHANGED <<remote, cache, response_json, idx, error, emitted,
                   requests, sleeping, throttles, lastResponse, runNo,
                   fetchedNow, fetchedBefore, prior>>

\* the process is killed, or the consumer stops pulling (the with block
\* closes the store)
Interrupt ==
    /\ pc \in {"loop", "sleep", "yield"}
    /\ pc' = "stopped"
    /\ UNCHANGED <<remote, cache, next_page_cursor, response_json, idx, error,
                   emitted, requests, sleeping, throttles, lastResponse, runNo,
                   fetchedNow, fetchedBefore, prior>>


----------------------------------------------------------------------------
(* Text of the destination file.  A file is its lines; open_end says that   *)
(* the last line has no terminating newline.  A jsonl line is the sequence  *)
(* of its pieces (a serialized record, or a run of whitespace); a csv line  *)
(* is the sequence of its cells.                                            *)

Space == " "

NoFile == [exists |-> FALSE, lines |-> <<>>, open_end |-> FALSE]
EmptyFile == [exists |-> TRUE, lines |-> <<>>, open_end |-> FALSE]

\* os.path.exists(file_path)
PathExists(f) == f.exists

\* variant: the file is always opened for appending
OpenModeAppend(ow) == "a"

\* variant: the file is always opened for writing
OpenModeWrite(ow) == "w"

\* mode = "w" if overwrite else "a"
OpenMode(ow) == IF ow THEN "w" ELSE "a"

\* open(file_path, mode): "w" creates or truncates, "a" creates if missing
Opened(f, mode) ==
    IF mode = "w" THEN EmptyFile ELSE [f EXCEPT !.exists = TRUE]

\* text written right after an unterminated jsonl line continues that line
JoinText(a, b) == a \o b

\* cells written right after an unterminated csv line: the first new cell
\* continues the last old one
JoinCells(a, b) ==
    IF a = <<>> THEN b
    ELSE IF b = <<>> THEN a
    ELSE SubSeq(a, 1, Len(a) - 1) \o <<a[Len(a)] \o b[1]>> \o Tail(b)

\* f.write(text + newline) at the end of the file
WriteLine(f, line, fmt) ==
    IF f.open_end /\ f.lines # <<>>
    THEN LET n == Len(f.lines)
             joined == IF fmt = "csv" THEN JoinCells(f.lines[n], line)
                       ELSE JoinText(f.lines[n], line)
         IN  [f EXCEPT !.lines = SubSeq(f.lines, 1, n - 1) \o <<joined>>,
                       !.open_end = FALSE]
    ELSE [f EXCEPT !.lines = Append(f.lines, line)]

----------------------------------------------------------------------------
(* Lines 75-88: format resolution and the jsonl format *)

\* Path(file_path).suffix.lstrip(".")
RECURSIVE LStripDots(_)
LStripDots(sfx) ==
    IF sfx # <<>> /\ Head(sfx) = "." THEN LStripDots(Tail(sfx))
    ELSE IF sfx = <<>> THEN "" ELSE Head(sfx)

\* variant: the format always comes from the path
ResolveFormatFromPath(fmt, path) == LStripDots(path)

\* lines 75-76
ResolveFormat(fmt, path) == IF fmt = None THEN LStripDots(path) ELSE fmt[1]

JsonValue(v) ==
    CASE v[1] = "str"  -> "\"" \o v[2] \o "\""
      [] v[1] = "int"  -> v[2]
      [] v[1] = "none" -> "null"

RECURSIVE JsonMembers(_)
JsonMembers(doc) ==
    LET m == "\"" \o doc[1][1] \o "\": " \o JsonValue(doc[1][2])
    IN  IF Len(doc) = 1 THEN m ELSE m \o ", " \o JsonMembers(Tail(doc))

\* json.dumps(item)
JsonDumps(doc) == IF doc = <<>> THEN "{}" ELSE "{" \o JsonMembers(doc) \o "}"

RECURSIVE LStrip(_)
LStrip(l) == IF l # <<>> /\ Head(l) = Space THEN LStrip(Tail(l)) ELSE l

RECURSIVE RStrip(_)
RStrip(l) ==
    IF l # <<>> /\ l[Len(l)] = Space THEN RStrip(SubSeq(l, 1, Len(l) - 1))
    ELSE l

\* str.strip()
Strip(l) == RStrip(LStrip(l))

\* {line.strip() for line in f}
ReadLineSet(f) == {Strip(f.lines[i]) : i \in 1..Len(f.lines)}

\* line 87: allow_duplicates or item_str.strip() not in existing_data_lines
WritesLine(allow, item, existing) ==
    allow \/ Strip(<<JsonDumps(item)>>) \notin existing

----------------------------------------------------------------------------
(* Lines 89-107: the csv format *)

Range(f) == {f[i] : i \in DOMAIN f}

\* a record as a dict: its (key, value) pairs
ItemDict(doc) == Range(doc)

\* first_item.keys()
Keys(doc) == [i \in 1..Len(doc) |-> doc[i][1]]

\* the csv writer's text of a value: "" for None, str(value) otherwise
CsvText(v) == IF v[1] = "none" THEN "" ELSE v[2]

\* DictWriter: the fields of the record that are not in fieldnames
ExtraFields(names, doc) == Range(Keys(doc)) \ Range(names)

\* DictWriter._dict_to_list: [rowdict.get(key, "") for key in fieldnames]
RowOf(names, doc) ==
    [i \in 1..Len(names) |->
        IF \E j \in 1..Len(doc) : doc[j][1] = names[i]
        THEN CsvText(doc[CHOOSE j \in 1..Len(doc) : doc[j][1] = names[i]][2])
        ELSE ""]

\* the key under which DictReader keeps the cells beyond the header
RestKey == "<None>"

\* DictReader: dict(zip(fieldnames, row)), short rows filled with None,
\* long rows kept under the key None
RowDict(header, row) ==
    { <<header[i], IF i <= Len(row) THEN StrV(row[i]) ELSE NoneV>> :
        i \in {j \in 1..Len(header) :
                 \A k \in (j + 1)..Len(header) : header[k] # header[j]} }
    \cup
    (IF Len(row) > Len(header)
     THEN {<<RestKey, <<"list">> \o SubSeq(row, Len(header) + 1, Len(row))>>}
     ELSE {})

\* list(csv.DictReader(f)): the first line is the header, blank rows are
\* skipped
ReadRows(f) ==
    IF f.lines = <<>> THEN <<>>
    ELSE LET rows == SelectSeq(Tail(f.lines), LAMBDA r : r # <<>>)
         IN  [i \in 1..Len(rows) |-> RowDict(f.lines[1], rows[i])]

\* line 103: overwrite or not os.path.exists(file_path), on the opened file
WritesHeader(ow, f) == ow \/ ~PathExists(f)

\* line 106: allow_duplicates or item not in existing_data
WritesRow(allow, item, existing) ==
    allow \/ \A i \in 1..Len(existing) : existing[i] # ItemDict(item)

UnsupportedFormat(fmt) == <<"ValueError", "Unsupported file format: ", fmt>>
StopIteration == <<"StopIteration">>
NotIterable ==
    <<"TypeError", "'_GeneratorContextManager' object is not iterable">>

\* lines 19-25, 85, 105: whether "for item in tqdm(data)" can iterate.  The
\* imported tqdm passes the records through; the fallback, a function under
\* @contextmanager, returns a context manager, which is not iterable.
TqdmIterable(installed) == installed
ExtraFieldsError(fs) ==
    <<"ValueError", "dict contains fields not in fieldnames: ", fs>>

----------------------------------------------------------------------------
(* The inputs of append_to_file *)

ExportDocs == {DocX, DocN, DocXY}

\* lines a pre-existing file may hold, per format
FileLineChoices(fmt) ==
    IF fmt = "csv" THEN {<<"a">>, <<"x">>, <<"1">>}
    ELSE {<<JsonDumps(DocX)>>, <<JsonDumps(DocN)>>, <<JsonDumps(DocX), Space>>}

FileChoices(fmt) ==
    {NoFile} \cup
    { f \in [exists : {TRUE},
             lines : SeqsUpTo(FileLineChoices(fmt), MaxFileLines),
             open_end : BOOLEAN] : f.open_end => f.lines # <<>> }

\* (file_format, suffix of file_path) of a call
CallFormats ==
    { <<None, <<".", "jsonl">> >>, << <<"csv">>, <<".", "txt">> >>,
      <<None, <<".", "txt">> >>, << <<"txt">>, <<".", "csv">> >> }

Resolved == ResolveFormat(file_format, file_path)

----------------------------------------------------------------------------
(* append_to_file *)

FetchIdle ==
    /\ remote = <<>>
    /\ cache = <<>>
    /\ pc = "idle"
    /\ next_page_cursor = None
    /\ response_json = <<>>
    /\ idx = 0
    /\ error = <<>>
    /\ emitted = <<>>
    /\ requests = <<>>
    /\ sleeping = <<>>
    /\ throttles = 0
    /\ lastResponse = <<>>
    /\ runNo = 0
    /\ fetchedNow = {}
    /\ fetchedBefore = {}
    /\ prior = [done |-> FALSE, emitted |-> <<>>]

ExportIdle ==
    /\ tqdm_installed = TRUE
    /\ file = NoFile
    /\ data = <<>>
    /\ file_path = <<>>
    /\ file_format = None
    /\ overwrite = FALSE
    /\ allow_duplicates = FALSE
    /\ xpc = "idle"
    /\ existing_data = <<>>
    /\ fieldnames = <<>>
    /\ xidx = 0
    /\ xerror = <<>>
    /\ callNo = 0
    /\ fileBefore = NoFile
    /\ hist = <<>>

InitExport ==
    /\ FetchIdle
    /\ token = "t1"
    /\ tqdm_installed \in BOOLEAN
    /\ \E cf \in CallFormats :
         /\ file_format = cf[1]
         /\ file_path = cf[2]
         /\ file \in FileChoices(ResolveFormat(cf[1], cf[2]))
    /\ data \in SeqsUpTo(ExportDocs, MaxData)
    /\ overwrite \in BOOLEAN
    /\ allow_duplicates \in BOOLEAN
    /\ xpc = "idle"
    /\ existing_data = <<>>
    /\ fieldnames = <<>>
    /\ xidx = 0
    /\ xerror = <<>>
    /\ callNo = 0
    /\ fileBefore = NoFile
    /\ hist = <<>>

Finished(after, outcome) ==
    Append(hist, [before |-> fileBefore, after |-> after, outcome |-> outcome])

\* lines 75-77, 89, 108-109: the call resolves its format
Call ==
    /\ xpc \in {"idle", "done", "error"}
    /\ callNo < MaxCalls
    /\ callNo' = callNo + 1
    /\ fileBefore' = file
    /\ existing_data' = <<>>
    /\ fieldnames' = <<>>
    /\ xidx' = 0
    /\ IF Resolved \in {"jsonl", "csv"}
       THEN /\ xpc' = "read"
            /\ xerror' = <<>>
            /\ hist' = hist
       ELSE /\ xpc' = "error"
            /\ xerror' = UnsupportedFormat(Resolved)
            /\ hist' = Append(hist, [before |-> file, after |-> file,
                                     outcome |-> "error"])
    /\ UNCHANGED <<tqdm_installed, file, data, file_path, file_format, overwrite,
                   allow_duplicates>>

\* lines 78-82, 90-95: read the existing content for the comparison
ReadExisting ==
    /\ xpc = "read"
    /\ existing_data' =
         IF ~overwrite /\ PathExists(file)
         THEN IF Resolved = "jsonl" THEN ReadLineSet(file) ELSE ReadRows(file)
         ELSE IF Resolved = "jsonl" THEN {} ELSE <<>>
    /\ xpc' = "open"
    /\ UNCHANGED <<tqdm_installed, file, data, file_path, file_format, overwrite,
                   allow_duplicates, fieldnames, xidx, xerror, callNo,
                   fileBefore, hist>>

\* lines 84, 97: open the destination
OpenFile ==
    /\ xpc = "open"
    /\ file' = Opened(file, OpenMode(overwrite))
    /\ xpc' = IF Resolved = "csv" THEN "peek" ELSE "enter"
    /\ xidx' = 1
    /\ UNCHANGED <<tqdm_installed, data, file_path, file_format, overwrite, allow_duplicates,
                   existing_data, fieldnames, xerror, callNo, fileBefore, hist>>

\* variant: the peek takes the first record away from the loop
PeekConsumes(i) == i + 1

\* line 98: itertools.tee gives the loop its own iterator, which still
\* starts at the record the peek took
AfterPeek(i) == i

\* lines 98-104: take the first record, build the writer, write the header
Peek ==
    /\ xpc = "peek"
    /\ IF data = <<>>
       THEN /\ xpc' = "error"
            /\ xerror' = StopIteration
            /\ hist' = Finished(file, "error")
            /\ UNCHANGED <<file, fieldnames, xidx>>
       ELSE /\ fieldnames' = Keys(data[1])
            /\ file' = IF WritesHeader(overwrite, file)
                       THEN WriteLine(file, Keys(data[1]), "csv")
                       ELSE file
            /\ xidx' = AfterPeek(xidx)
            /\ xpc' = "enter"
            /\ UNCHANGED <<xerror, hist>>
    /\ UNCHANGED <<tqdm_installed, data, file_path, file_format, overwrite, allow_duplicates,
                   existing_data, callNo, fileBefore>>

\* lines 85, 105: "for item in tqdm(data)" starts iterating
EnterLoop ==
    /\ xpc = "enter"
    /\ IF TqdmIterable(tqdm_installed)
       THEN /\ xpc' = "loop"
            /\ UNCHANGED <<xerror, hist>>
       ELSE /\ xpc' = "error"
            /\ xerror' = NotIterable
            /\ hist' = Finished(file, "error")
    /\ UNCHANGED <<tqdm_installed, file, data, file_path, file_format,
                   overwrite, allow_duplicates, existing_data, fieldnames,
                   xidx, callNo, fileBefore>>

\* lines 85-88, 105-107: one turn of the write loop
WriteItem ==
    /\ xpc = "loop"
    /\ xidx <= Len(data)
    /\ IF Resolved = "jsonl"
       THEN /\ file' = IF WritesLine(allow_duplicates, data[xidx], existing_data)
                       THEN WriteLine(file, <<JsonDumps(data[xidx])>>, "jsonl")
                       ELSE file
            /\ xidx' = xidx + 1
            /\ UNCHANGED <<xpc, xerror, hist>>
       ELSE IF /\ WritesRow(allow_duplicates, data[xidx], existing_data)
               /\ ExtraFields(fieldnames, data[xidx]) # {}
       THEN /\ xpc' = "error"
            /\ xerror' = ExtraFieldsError(ExtraFields(fieldnames, data[xidx]))
            /\ hist' = Finished(file, "error")
            /\ UNCHANGED <<file, xidx>>
       ELSE /\ file' = IF WritesRow(allow_duplicates, data[xidx], existing_data)
                       THEN WriteLine(file, RowOf(fieldnames, data[xidx]), "csv")
                       ELSE file
            /\ xidx' = xidx + 1
            /\ UNCHANGED <<xpc, xerror, hist>>
    /\ UNCHANGED <<tqdm_installed, data, file_path, file_format, overwrite, allow_duplicates,
                   existing_data, fieldnames, callNo, fileBefore>>

\* the input is exhausted: the with block closes the file and the call returns
Close ==
    /\ xpc = "loop"
    /\ xidx > Len(data)
    /\ xpc' = "done"
    /\ hist' = Finished(file, "done")
    /\ UNCHANGED <<tqdm_installed, file, data, file_path, file_format, overwrite,
                   allow_duplicates, existing_data, fieldnames, xidx, xerror,
                   callNo, fileBefore>>

----------------------------------------------------------------------------
(* Specifications *)

\* runs of fetch_all_documents against one remote collection and one store
NextFetch ==
    \/ StartRun /\ UNCHANGED <<exportVars, envVars>>
    \/ CacheHit /\ UNCHANGED <<exportVars, envVars>>
    \/ Fetch /\ UNCHANGED <<exportVars, envVars>>
    \/ Wake /\ UNCHANGED <<exportVars, envVars>>
    \/ Yield /\ UNCHANGED <<exportVars, envVars>>
    \/ Advance /\ UNCHANGED <<exportVars, envVars>>
    \/ Interrupt /\ UNCHANGED <<exportVars, envVars>>

InitFetch == FetchStart /\ ExportIdle /\ token = "t1"

SpecFetch == InitFetch /\ [][NextFetch]_vars

\* calls of append_to_file with the same records and flags on one file
NextExport ==
    \/ Call /\ UNCHANGED <<fetchVars, envVars>>
    \/ ReadExisting /\ UNCHANGED <<fetchVars, envVars>>
    \/ OpenFile /\ UNCHANGED <<fetchVars, envVars>>
    \/ Peek /\ UNCHANGED <<fetchVars, envVars>>
    \/ EnterLoop /\ UNCHANGED <<fetchVars, envVars>>
    \/ WriteItem /\ UNCHANGED <<fetchVars, envVars>>
    \/ Close /\ UNCHANGED <<fetchVars, envVars>>

SpecExport == InitExport /\ [][NextExport]_vars

----------------------------------------------------------------------------
(* main (lines 112-157): fetch_all_documents feeding append_to_file.  The   *)
(* generator runs only while the exporter waits for a record; data holds    *)
(* the records the exporter has obtained so far.                            *)

exportRest == <<tqdm_installed, file, file_path, file_format, overwrite,
                allow_duplicates, xpc, existing_data, fieldnames, xidx,
                xerror, callNo, fileBefore, hist>>

\* lines 114-116
ConfigError == <<"ValueError", "READWISE_ACCESS_TOKEN not found in .env file">>

\* variant: the generator runs ahead of its consumer
DemandAlways == TRUE

\* lines 99, 85, 105: next() on the generator: the peek asks for the first
\* record, the loop for the record after those it has obtained
Demand ==
    \/ xpc = "peek" /\ data = <<>>
    \/ xpc = "loop" /\ xidx > Len(data)

\* the remote collections of the composed runs
PipeChains ==
    { <<[results |-> <<>>]>>,
      <<[results |-> <<DocY, DocX>>, nextPageCursor |-> None]>>,
      <<[results |-> <<>>, nextPageCursor |-> <<"c2">>],
        [results |-> <<DocX>>]>>,
      <<[results |-> <<DocX>>, nextPageCursor |-> <<"c2">>],
        [results |-> <<DocY, DocX>>, nextPageCursor |-> <<"">>]>> }

\* the params that address page i of a chain
ChainParams(chain, i) ==
    IF i = 1 THEN {} ELSE Params(Get(chain[i - 1], "nextPageCursor"))

\* the store after earlier runs fetched the first n pages of a chain
CachedPrefix(chain, n) ==
    LET keys == {CacheKey(ChainParams(chain, i)) : i \in 1..n}
    IN  [k \in keys |->
            chain[CHOOSE i \in 1..n : CacheKey(ChainParams(chain, i)) = k]]

\* the destination files of the composed runs, per format
PipeFiles(fmt) ==
    LET first == IF fmt = "csv" THEN <<"a">> ELSE <<JsonDumps(DocY)>>
        second == IF fmt = "csv" THEN <<"x">> ELSE <<JsonDumps(DocX)>>
    IN  {NoFile, EmptyFile,
         [exists |-> TRUE, lines |-> <<first, second>>, open_end |-> FALSE],
         [exists |-> TRUE, lines |-> <<first, second>>, open_end |-> TRUE]}

\* what the disk holds of an opened file when the process is killed: the
\* text layer hands whole write() calls to the buffer, so some of the lines
\* written so far, in order
OnDisk(opened, f) ==
    IF f = opened THEN {opened}
    ELSE {opened} \cup
         { [exists |-> TRUE, lines |-> SubSeq(f.lines, 1, m),
            open_end |-> FALSE] :
           m \in (IF opened.open_end THEN Len(opened.lines)
                  ELSE Len(opened.lines) + 1)..Len(f.lines) }

InitPipe ==
    /\ remote \in PipeChains
    /\ \E n \in 0..Len(remote) :
         /\ cache = CachedPrefix(remote, n)
         /\ fetchedBefore = DOMAIN CachedPrefix(remote, n)
    /\ pc = "idle"
    /\ next_page_cursor = None
    /\ response_json = <<>>
    /\ idx = 0
    /\ error = <<>>
    /\ emitted = <<>>
    /\ requests = <<>>
    /\ sleeping = <<>>
    /\ throttles = 0
    /\ lastResponse = <<>>
    /\ runNo = 0
    /\ fetchedNow = {}
    /\ prior = [done |-> FALSE, emitted |-> <<>>]
    /\ token \in {"t1", ""}
    /\ tqdm_installed \in BOOLEAN
    /\ \E cf \in CallFormats :
         /\ file_format = cf[1]
         /\ file_path = cf[2]
         /\ file \in PipeFiles(ResolveFormat(cf[1], cf[2]))
    /\ data = <<>>
    /\ overwrite \in BOOLEAN
    /\ allow_duplicates \in BOOLEAN
    /\ xpc = "idle"
    /\ existing_data = <<>>
    /\ fieldnames = <<>>
    /\ xidx = 0
    /\ xerror = <<>>
    /\ callNo = 0
    /\ fileBefore = NoFile
    /\ hist = <<>>

\* lines 113-116: the credential is missing
MainNoToken ==
    /\ xpc = "idle"
    /\ callNo = 0
    /\ token = ""
    /\ xpc' = "error"
    /\ xerror' = ConfigError
    /\ UNCHANGED <<fetchVars, envVars, tqdm_installed, file, data, file_path,
                   file_format, overwrite, allow_duplicates, existing_data,
                   fieldnames, xidx, callNo, fileBefore, hist>>

\* lines 150-157: the generator is created (not started) and handed to
\* append_to_file
Main ==
    /\ callNo = 0
    /\ xerror = <<>>
    /\ token # ""
    /\ Call
    /\ UNCHANGED <<fetchVars, envVars>>

\* the first next() runs the generator's lines 29-34
PullStart ==
    /\ Demand
    /\ pc = "idle"
    /\ StartRun
    /\ UNCHANGED <<exportVars, envVars>>

\* the generator yields a record to the exporter
PullYield ==
    /\ Demand
    /\ Yield
    /\ data' = Append(data, response_json.results[idx])
    /\ UNCHANGED <<exportRest, envVars>>

\* the generator raises: the exception leaves append_to_file through the
\* with block, which closes the file
PullRaise ==
    /\ Demand
    /\ pc = "error"
    /\ xpc' = "error"
    /\ xerror' = error
    /\ hist' = Finished(file, "error")
    /\ UNCHANGED <<fetchVars, envVars, tqdm_installed, file, data, file_path,
                   file_format, overwrite, allow_duplicates, existing_data,
                   fieldnames, xidx, callNo, fileBefore>>

\* the first record has been obtained, or the generator returned without one
PipePeek ==
    /\ data # <<>> \/ pc = "done"
    /\ Peek
    /\ UNCHANGED <<fetchVars, envVars>>

\* the generator returned: the loop ends
PipeClose ==
    /\ pc = "done"
    /\ Close
    /\ UNCHANGED <<fetchVars, envVars>>

\* the process is killed during the call
Kill ==
    /\ xpc \in {"read", "open", "peek", "enter", "loop"}
    /\ \/ Interrupt
       \/ pc \notin {"loop", "sleep", "yield"} /\ UNCHANGED fetchVars
    /\ file' \in IF xpc \in {"read", "open"} THEN {file}
                 ELSE OnDisk(Opened(fileBefore, OpenMode(overwrite)), file)
    /\ xpc' = "killed"
    /\ hist' = Finished(file', "killed")
    /\ UNCHANGED <<envVars, tqdm_installed, data, file_path, file_format,
                   overwrite, allow_duplicates, existing_data, fieldnames,
                   xidx, xerror, callNo, fileBefore>>

NextPipe ==
    \/ MainNoToken
    \/ Main
    \/ ReadExisting /\ UNCHANGED <<fetchVars, envVars>>
    \/ OpenFile /\ UNCHANGED <<fetchVars, envVars>>
    \/ PipePeek
    \/ EnterLoop /\ UNCHANGED <<fetchVars, envVars>>
    \/ WriteItem /\ UNCHANGED <<fetchVars, envVars>>
    \/ PipeClose
    \/ PullStart
    \/ Demand /\ CacheHit /\ UNCHANGED <<exportVars, envVars>>
    \/ Demand /\ Fetch /\ UNCHANGED <<exportVars, envVars>>
    \/ Demand /\ Wake /\ UNCHANGED <<exportVars, envVars>>
    \/ PullYield
    \/ Demand /\ Advance /\ UNCHANGED <<exportVars, envVars>>
    \/ PullRaise
    \/ Kill

SpecPipe == InitPipe /\ [][NextPipe]_vars

----------------------------------------------------------------------------
(* One run of fetch_all_documents consumed to its end: the consumer keeps   *)
(* pulling, every request is answered and every sleep returns.  The store   *)
(* holds what earlier runs fetched of the chain.                            *)

InitLive ==
    /\ remote \in Chains
    /\ \E n \in 0..Len(remote) :
         /\ cache = CachedPrefix(remote, n)
         /\ fetchedBefore = DOMAIN CachedPrefix(remote, n)
    /\ pc = "idle"
    /\ next_page_cursor = None
    /\ response_json = <<>>
    /\ idx = 0
    /\ error = <<>>
    /\ emitted = <<>>
    /\ requests = <<>>
    /\ sleeping = <<>>
    /\ throttles = 0
    /\ lastResponse = <<>>
    /\ runNo = 0
    /\ fetchedNow = {}
    /\ prior = [done |-> FALSE, emitted |-> <<>>]
    /\ token = "t1"
    /\ ExportIdle

NextLive ==
    \/ pc = "idle" /\ StartRun /\ UNCHANGED <<exportVars, envVars>>
    \/ CacheHit /\ UNCHANGED <<exportVars, envVars>>
    \/ Fetch /\ UNCHANGED <<exportVars, envVars>>
    \/ Wake /\ UNCHANGED <<exportVars, envVars>>
    \/ Yield /\ UNCHANGED <<exportVars, envVars>>
    \/ Advance /\ UNCHANGED <<exportVars, envVars>>

SpecLive == InitLive /\ [][NextLive]_vars /\ WF_vars(NextLive)

----------------------------------------------------------------------------
(* Runs of fetch_all_documents by processes with different credentials on   *)
(* one store.                                                               *)

InitCred ==
    /\ token \in Tokens
    /\ remote \in PipeChains
    /\ \E n \in 0..Len(remote) :
         /\ cache = CachedPrefix(remote, n)
         /\ fetchedBefore = DOMAIN CachedPrefix(remote, n)
    /\ pc = "idle"
    /\ next_page_cursor = None
    /\ response_json = <<>>
    /\ idx = 0
    /\ error = <<>>
    /\ emitted = <<>>
    /\ requests = <<>>
    /\ sleeping = <<>>
    /\ throttles = 0
    /\ lastResponse = <<>>
    /\ runNo = 0
    /\ fetchedNow = {}
    /\ prior = [done |-> FALSE, emitted |-> <<>>]
    /\ ExportIdle

\* line 150: the first run uses the credential of the start, every later
\* run another one
StartRunAs ==
    /\ StartRun
    /\ token' \in IF pc = "idle" THEN {token} ELSE Tokens \ {token}
    /\ UNCHANGED exportVars

NextCred ==
    \/ StartRunAs
    \/ CacheHit /\ UNCHANGED <<exportVars, envVars>>
    \/ Fetch /\ UNCHANGED <<exportVars, envVars>>
    \/ Wake /\ UNCHANGED <<exportVars, envVars>>
    \/ Yield /\ UNCHANGED <<exportVars, envVars>>
    \/ Advance /\ UNCHANGED <<exportVars, envVars>>
    \/ Interrupt /\ UNCHANGED <<exportVars, envVars>>

SpecCred == InitCred /\ [][NextCred]_vars

----------------------------------------------------------------------------
(* Observations used by the properties of fetch_all_documents *)

\* the records of the whole remote collection, in chain order
AllRecords == Concat([i \in 1..Len(remote) |-> remote[i].results])

\* the params that address page i of the chain
PageParams(i) ==
    IF i = 1 THEN {}
    ELSE Params(Get(remote[i - 1], "nextPageCursor"))

\* index of the first page of the chain that no earlier run fetched
\* (Len(remote) + 1 when every page was fetched)
FirstUnfetched ==
    CHOOSE i \in 1..(Len(remote) + 1) :
        /\ \A j \in 1..(i - 1) : CacheKey(PageParams(j)) \in fetchedBefore
        /\ i <= Len(remote) => CacheKey(PageParams(i)) \notin fetchedBefore

\* the records of the pages before page i
RecordsBefore(i) == Concat([j \in 1..(i - 1) |-> remote[j].results])

\* the bodies with which the server throttles
IsThrottle(body) == \E n \in WaitSeconds : body = ThrottleBody(n)

\* the number of seconds a throttling body names
ServerSeconds(body) == CHOOSE n \in WaitSeconds : body = ThrottleBody(n)

\* the bodies without results that do not match the throttling pattern
IsApiErrorBody(body) ==
    body \in { [detail |-> <<"Invalid token.">>],
               [detail |-> <<ThrottleHead, "5", ThrottleTail>>],
               [error |-> "server error"] }

\* this step issued an HTTP request
Requested == Len(requests') = Len(requests) + 1

----------------------------------------------------------------------------
(* C1. Pagination completeness: a run that starts from an empty cache emits *)
(* the results of P1, ..., Pn concatenated in order: at every moment what   *)
(* it has emitted is a prefix of that sequence, and when it completes it    *)
(* has emitted all of it, after requesting each page of the chain.          *)
C1_PaginationCompleteness ==
    (runNo >= 1 /\ fetchedBefore = {}) =>
        /\ IsPrefix(emitted, AllRecords)
        /\ pc = "done" =>
             /\ emitted = AllRecords
             /\ \A i \in 1..Len(remote) :
                    \E k \in 1..Len(requests) : requests[k] = PageParams(i)

C1_Witness ==
    /\ pc = "done"
    /\ fetchedBefore = {}
    /\ Len(remote) = 3
    /\ Len(emitted) = 4

(* C2. Idempotent cache replay: once a run has completed, a later run       *)
(* issues no HTTP request and emits the same records as the completed run   *)
(* (a prefix of them while it is running, all of them when it completes).   *)
C2_CacheReplay ==
    prior.done =>
        /\ requests = <<>>
        /\ IsPrefix(emitted, prior.emitted)
        /\ pc = "done" => emitted = prior.emitted

C2_Witness ==
    /\ prior.done
    /\ pc = "done"
    /\ Len(emitted) >= 3
    /\ Len(remote) >= 2

(* C3. Resume after interruption: a restarted run issues no HTTP request    *)
(* for a page that an earlier run fetched; it replays those pages and its   *)
(* first request is for the first page of the chain not yet fetched.        *)
C3_Resume ==
    /\ \A k \in 1..Len(requests) : CacheKey(requests[k]) \notin fetchedBefore
    /\ requests = <<>> => IsPrefix(emitted, RecordsBefore(FirstUnfetched))
    /\ requests # <<>> =>
           /\ FirstUnfetched <= Len(remote)
           /\ requests[1] = PageParams(FirstUnfetched)
           /\ IsPrefix(RecordsBefore(FirstUnfetched), emitted)

C3_Witness ==
    /\ runNo = 2
    /\ ~prior.done
    /\ Cardinality(fetchedBefore) = 2
    /\ requests # <<>>
    /\ Len(emitted) >= 2

(* C4. Throttle-then-succeed: a throttling response makes the run sleep the *)
(* number of seconds the server named, without raising and with nothing    *)
(* emitted or cached; the sleep ends with the cursor unchanged and the      *)
(* request after it asks for the same page, however often the page has      *)
(* been throttled; and a run that completes has emitted every record of     *)
(* the collection exactly once.                                             *)
C4_ThrottleRetry ==
    /\ [][(Requested /\ IsThrottle(lastResponse')) =>
            /\ pc' = "sleep"
            /\ sleeping' = <<ServerSeconds(lastResponse')>>
            /\ error' = <<>>
            /\ next_page_cursor' = next_page_cursor
            /\ emitted' = emitted
            /\ cache' = cache]_vars
    /\ [][(pc = "sleep" /\ pc' # "stopped") =>
            /\ pc' = "loop"
            /\ next_page_cursor' = next_page_cursor
            /\ UNCHANGED <<emitted, requests, cache>>]_vars
    /\ [][(Requested /\ requests # <<>> /\ IsThrottle(lastResponse)) =>
            requests'[Len(requests')] = requests[Len(requests)]]_vars
    /\ [](pc = "done" => emitted = AllRecords)

C4_Witness ==
    /\ pc = "done"
    /\ throttles = 2
    /\ Len(remote) = 2
    /\ Len(requests) = 4
    /\ Len(emitted) >= 1

(* C5. Every entry of the persistent cache is a page response holding a     *)
(* results field.                                                           *)
C5_CacheHoldsPages ==
    \A k \in DOMAIN cache : "results" \in DOMAIN cache[k]

C5_Witness ==
    /\ runNo = 2
    /\ pc = "error"
    /\ throttles > 0
    /\ Cardinality(DOMAIN cache) >= 2

(* C6. A cache entry, once written, keeps its value and is never removed,   *)
(* and no HTTP request is issued for a key that is in the cache.            *)
C6_CacheWriteOnce ==
    [][/\ \A k \in DOMAIN cache : k \in DOMAIN cache' /\ cache'[k] = cache[k]
       /\ Requested => CacheKey(requests'[Len(requests')]) \notin DOMAIN cache
      ]_vars

C6_Witness ==
    /\ runNo = 2
    /\ fetchedBefore # {}
    /\ fetchedNow # {}
    /\ Cardinality(DOMAIN cache) = 3

(* C7. A response without results that does not match the throttling        *)
(* pattern raises an error carrying the response body, with nothing         *)
(* emitted, the cursor not advanced and nothing cached for it; after the    *)
(* error the run issues no request, emits nothing and changes neither the   *)
(* cursor nor the cache.                                                    *)
C7_ApiErrorAborts ==
    /\ [][(Requested /\ IsApiErrorBody(lastResponse')) =>
            /\ pc' = "error"
            /\ error' = <<"ValueError", "Error fetching data: ", lastResponse'>>
            /\ emitted' = emitted
            /\ next_page_cursor' = next_page_cursor
            /\ cache' = cache]_vars
    /\ [][(pc = "error" /\ runNo' = runNo) =>
            UNCHANGED <<requests, emitted, next_page_cursor, cache>>]_vars

C7_Witness ==
    /\ pc = "error"
    /\ error = <<"ValueError", "Error fetching data: ",
                 [detail |-> <<"Invalid token.">>]>>
    /\ emitted # <<>>
    /\ Len(requests) >= 2

----------------------------------------------------------------------------
(* Observations used by the properties of append_to_file *)

\* the set of distinct lines of a file
DistinctLines(f) == Range(f.lines)

\* the set of distinct rows of a csv file, as csv.DictReader reads them
DistinctRows(f) == Range(ReadRows(f))

\* two finished calls, both returning, with duplicates disallowed and no
\* overwrite, on a file that existed before the first
AppendedTwice(fmt) ==
    /\ Resolved = fmt
    /\ ~overwrite
    /\ ~allow_duplicates
    /\ Len(hist) >= 2
    /\ hist[1].before.exists
    /\ hist[1].outcome = "done"
    /\ hist[2].outcome = "done"

\* the file that holds exactly the given records, in order
FileOfRecords(fmt, ds) ==
    [exists |-> TRUE,
     lines |-> IF fmt = "jsonl"
               THEN [i \in 1..Len(ds) |-> <<JsonDumps(ds[i])>>]
               ELSE IF ds = <<>> THEN <<>>
               ELSE <<Keys(ds[1])>> \o
                    [i \in 1..Len(ds) |-> RowOf(Keys(ds[1]), ds[i])],
     open_end |-> FALSE]

\* call k overwrote an existing, non-empty file with a non-empty input
Overwrote(k) ==
    /\ overwrite
    /\ Resolved \in {"jsonl", "csv"}
    /\ data # <<>>
    /\ hist[k].before.exists
    /\ hist[k].before.lines # <<>>

----------------------------------------------------------------------------
(* C8. Dedup idempotence (line format): after appending the same records    *)
(* twice to a pre-existing jsonl file with allow_duplicates=False and       *)
(* overwrite=False, the file's set of distinct lines is what it was after   *)
(* the first append, and the second append wrote no line.                   *)
C8_DedupIdempotentLines ==
    AppendedTwice("jsonl") =>
        /\ DistinctLines(hist[2].after) = DistinctLines(hist[1].after)
        /\ hist[2].after = hist[1].after

(* C8, on the files whose last line ends with a newline: there the second   *)
(* append writes nothing.                                                   *)
C8_OnTerminatedFiles ==
    (AppendedTwice("jsonl") /\ ~hist[1].before.open_end) =>
        hist[2].after = hist[1].after

(* C9. Dedup idempotence (tabular format): after appending the same records *)
(* twice to a pre-existing csv file with allow_duplicates=False and         *)
(* overwrite=False, the file's set of distinct rows is what it was after    *)
(* the first append.                                                        *)
C9_DedupIdempotentRows ==
    AppendedTwice("csv") =>
        DistinctRows(hist[2].after) = DistinctRows(hist[1].after)

(* C9, on the files that hold a header line and whose last line ends with   *)
(* a newline: there the set of distinct rows is kept.                       *)
C9_OnTerminatedFiles ==
    (/\ AppendedTwice("csv")
     /\ hist[1].before.lines # <<>>
     /\ ~hist[1].before.open_end) =>
        DistinctRows(hist[2].after) = DistinctRows(hist[1].after)

----------------------------------------------------------------------------
(* Observations used by the properties of the composed run *)

\* the format a call asks for: the explicit one, else the path's extension
RequestedFormat ==
    IF file_format = None THEN LStripDots(file_path) ELSE file_format[1]

----------------------------------------------------------------------------
(* C11. Unsupported format rejection: when the explicit format, or the      *)
(* extension of the path when no format is given, is neither jsonl nor csv, *)
(* the call raises the unsupported-format error and has done nothing else:  *)
(* the file is as it was (not created, truncated or written), nothing was   *)
(* read from it, no record was pulled and the generator never started, so   *)
(* no page was looked up or requested.                                      *)
C11_UnsupportedFormatRejected ==
    (callNo >= 1 /\ RequestedFormat \notin {"jsonl", "csv"}) =>
        /\ xpc = "error"
        /\ xerror = UnsupportedFormat(RequestedFormat)
        /\ file = fileBefore
        /\ hist = <<[before |-> file, after |-> file, outcome |-> "error"]>>
        /\ existing_data = <<>>
        /\ data = <<>>
        /\ pc = "idle"
        /\ runNo = 0
        /\ requests = <<>>
        /\ emitted = <<>>

\* a call with no explicit format and the extension txt was rejected and
\* its non-empty file is still there
C11_Witness ==
    /\ xpc = "error"
    /\ xerror = UnsupportedFormat("txt")
    /\ file_format = None
    /\ file.exists
    /\ file.lines # <<>>

----------------------------------------------------------------------------
(* C12. Empty input (tabular): a call in csv mode with an empty record      *)
(* sequence returns normally and leaves the destination as it was: no file  *)
(* is created and an existing file is untouched.                            *)
C12_EmptyInputTabular ==
    \A k \in 1..Len(hist) :
        (Resolved = "csv" /\ data = <<>>) =>
            /\ hist[k].outcome = "done"
            /\ hist[k].after = hist[k].before

(* C13. Tabular header: in csv mode with a non-empty input the header row   *)
(* (the field names of the first record) is written exactly when overwrite  *)
(* is true or the destination did not exist before the call.  The header is *)
(* written, or not, by the step that takes the first record.                *)
C13_TabularHeader ==
    [][(xpc = "peek" /\ xpc' = "enter") =>
          file' = IF overwrite \/ ~fileBefore.exists
                  THEN WriteLine(file, Keys(data[1]), "csv")
                  ELSE file]_vars

\* the record is in the file, as the format compares: its serialized line is
\* among the file's lines, or it equals one of the rows read from the file
Present(item, f) ==
    IF Resolved = "jsonl"
    THEN Strip(<<JsonDumps(item)>>) \in ReadLineSet(f)
    ELSE ItemDict(item) \in Range(ReadRows(f))

(* C14. Dedup suppression: with allow_duplicates=False no step of the write *)
(* loop writes a record that is already present in the destination file,    *)
(* whatever the incoming sequence, repeated records included.               *)
C14_DedupSuppression ==
    [][(xpc = "loop" /\ ~allow_duplicates /\ file' # file) =>
          ~Present(data[xidx], file)]_vars

(* C14, against the content the call read when it started: no record that   *)
(* was present in that content is written.                                  *)
C14_OnReadContent ==
    [][(/\ xpc = "loop"
        /\ ~allow_duplicates
        /\ ~overwrite
        /\ fileBefore.exists
        /\ file' # file) =>
          ~Present(data[xidx], fileBefore)]_vars

----------------------------------------------------------------------------
(* C15. Termination: a run of fetch_all_documents over a finite chain,      *)
(* throttled finitely often, eventually ends.  It ends by returning unless  *)
(* the server answered with a body that is neither a page nor a throttle,   *)
(* and it returns exactly when it has emitted the records of the chain's    *)
(* last page, the first page without a continuation token: everything       *)
(* before it was emitted and nothing after it was looked up.                *)
C15_Termination ==
    /\ (pc \in {"loop", "sleep", "yield"}) ~> (pc \in {"done", "error"})
    /\ [](pc = "error" => (~HasResults(lastResponse) /\ ~IsThrottle(lastResponse)))
    /\ [](pc = "done" =>
            /\ response_json = remote[Len(remote)]
            /\ ~Truthy(NextCursor(response_json))
            /\ idx = Len(response_json.results) + 1
            /\ emitted = AllRecords)
    /\ [](pc \in {"loop", "sleep", "yield"} =>
            /\ IsPrefix(emitted, AllRecords)
            /\ Len(emitted) <= Len(AllRecords))

\* a run over a chain of three pages returned after two throttles
C15_Witness ==
    /\ pc = "done"
    /\ Len(remote) >= 3
    /\ throttles = 2
    /\ emitted = AllRecords
    /\ emitted # <<>>

----------------------------------------------------------------------------
(* C16. In csv mode the destination is not opened before the first record   *)
(* has been obtained: as long as the call has no record, whether the fetch  *)
(* is still under way, has failed or has returned without one, the file is  *)
(* as it was before the call.                                               *)
C16_PeekBeforeOpen ==
    (callNo >= 1 /\ Resolved = "csv" /\ data = <<>>) => file = fileBefore

(* C16, its consequence alone: a call that ended with an exception before   *)
(* any record arrived left the file as it was.                              *)
C16_FailedFetchLeavesFile ==
    \A k \in 1..Len(hist) :
        (Resolved = "csv" /\ data = <<>> /\ hist[k].outcome = "error") =>
            hist[k].after = hist[k].before

----------------------------------------------------------------------------
\* this step looks up a page (in the store, or with an HTTP request)
LooksUpPage == pc = "loop" /\ pc' \in {"yield", "sleep", "error"}

\* the number of records the write loop has written or suppressed
Processed == IF xpc \in {"loop", "done"} THEN xidx - 1 ELSE 0

(* C17. Lazy one-at-a-time pull: in the composed run a page is looked up    *)
(* (cache or HTTP) only when every record emitted so far has been handed to *)
(* the exporter and written or suppressed by it; the exporter never holds   *)
(* more than one record it has not processed, and holds exactly what the    *)
(* generator emitted.                                                       *)
C17_LazyPull ==
    /\ [][LooksUpPage => (data = emitted /\ Len(emitted) = Processed)]_vars
    /\ [](xpc \in {"peek", "enter", "loop", "done"} =>
            (data = emitted /\ Len(data) <= Processed + 1))

\* the second page was requested after the first page's record went through
\* the write loop
C17_Witness ==
    /\ Len(requests) = 2
    /\ pc = "yield"
    /\ xpc = "loop"
    /\ Processed = 1
    /\ Len(remote[1].results) = 1

----------------------------------------------------------------------------
(* The text of a file, for the properties that compare contents *)

\* the line terminator each format writes
LineEnd(fmt) == IF fmt = "csv" THEN "\r\n" ELSE "\n"

RECURSIVE JoinStrings(_, _)
JoinStrings(ss, sep) ==
    IF ss = <<>> THEN ""
    ELSE IF Len(ss) = 1 THEN ss[1]
    ELSE ss[1] \o sep \o JoinStrings(Tail(ss), sep)

\* the text of a line: csv cells are separated by commas
LineText(fmt, line) == JoinStrings(line, IF fmt = "csv" THEN "," ELSE "")

RECURSIVE LinesText(_, _, _)
LinesText(fmt, lines, open_end) ==
    IF lines = <<>> THEN ""
    ELSE IF Len(lines) = 1
    THEN LineText(fmt, lines[1]) \o (IF open_end THEN "" ELSE LineEnd(fmt))
    ELSE LineText(fmt, lines[1]) \o LineEnd(fmt)
         \o LinesText(fmt, Tail(lines), open_end)

\* the bytes of a file ("" for a missing one)
FileText(fmt, f) == LinesText(fmt, f.lines, f.open_end)

\* the text a written record adds to the file
RecordText(fmt, names, item) ==
    LineText(fmt, IF fmt = "csv" THEN RowOf(names, item)
                  ELSE <<JsonDumps(item)>>) \o LineEnd(fmt)

\* the record is to be written: duplicates are allowed, or nothing was read
\* from the file, or the record is not in what was read
Kept(item) ==
    \/ allow_duplicates
    \/ overwrite
    \/ ~fileBefore.exists
    \/ ~Present(item, fileBefore)

RECURSIVE WrittenText(_, _, _)
WrittenText(fmt, names, recs) ==
    IF recs = <<>> THEN ""
    ELSE (IF Kept(recs[1]) THEN RecordText(fmt, names, recs[1]) ELSE "")
         \o WrittenText(fmt, names, Tail(recs))

----------------------------------------------------------------------------
C19_AppendSafety ==
    (callNo >= 1 /\ ~overwrite /\ Resolved \in {"jsonl", "csv"}) =>
        \E j \in 0..Len(emitted) :
            FileText(Resolved, file) =
                FileText(Resolved, fileBefore)
                \o WrittenText(Resolved,
                               IF emitted = <<>> THEN <<>> ELSE Keys(emitted[1]),
                               SubSeq(emitted, 1, j))

\* a fatal API error on the second page, after records were appended to a
\* file that had content
C19_Witness ==
    /\ ~overwrite
    /\ xpc = "error"
    /\ pc = "error"
    /\ Len(requests) = 2
    /\ fileBefore.lines # <<>>
    /\ file # fileBefore
    /\ [exists |-> TRUE, lines |-> fileBefore.lines, open_end |-> FALSE] # file

\* the process was killed after two records were written and the disk holds
\* one of them
C19_WitnessKilled ==
    /\ ~overwrite
    /\ allow_duplicates
    /\ xpc = "killed"
    /\ ~fileBefore.open_end
    /\ fileBefore.lines # <<>>
    /\ xidx = 3
    /\ Len(file.lines) = Len(fileBefore.lines) + 1

----------------------------------------------------------------------------
\* the run started with every page of the chain in the store: the run
\* before it completed, or earlier runs had fetched every page
FullyCached ==
    \/ prior.done
    \/ \A i \in 1..Len(remote) : CacheKey(PageParams(i)) \in fetchedBefore

(* C20. Credential independence of cache hits: a run that starts from a     *)
(* fully populated store issues no HTTP request, meets no throttle or error *)
(* and emits the whole chain, whatever its token (a token the service does  *)
(* not know included), so it emits what the completed run before it, made   *)
(* with another token, emitted.  A run's fate depends on the token only in  *)
(* steps that request a cursor that is not in the store.                    *)
C20_CredentialIndependence ==
    /\ []((runNo >= 1 /\ FullyCached) =>
            /\ requests = <<>>
            /\ pc \notin {"sleep", "error"}
            /\ IsPrefix(emitted, AllRecords)
            /\ pc = "done" => emitted = AllRecords
            /\ (pc = "done" /\ prior.done) => emitted = prior.emitted)
    /\ [][(pc = "loop" /\ pc' \in {"sleep", "error"}) =>
            /\ Requested
            /\ ~InCache(cache, CacheKey(Params(next_page_cursor)))]_vars

\* a second run, with a token the service does not know, completed from the
\* store and emitted what the first run emitted
C20_Witness ==
    /\ runNo = 2
    /\ token = "bad"
    /\ pc = "done"
    /\ prior.done
    /\ requests = <<>>
    /\ emitted = prior.emitted
    /\ Len(emitted) = 3

====
